---- MODULE Spec2Model ----
(***************************************************************************)
(* BIN-RPC value codec and frame codec of pybinrpc (pybinrpc/support.py,   *)
(* pybinrpc/const.py), with the server side of a connection (frame layer   *)
(* and dispatcher) on top of it.                                           *)
(*                                                                         *)
(* Representation.  A byte string is a sequence over 0..255; Python's      *)
(* 0-based offsets are kept, so byte `buf[i]` of the source is buf[i + 1]  *)
(* here.  A text string is the sequence of its code points.  TLC integers  *)
(* are 32-bit signed, Python's are unbounded: an unsigned 32-bit quantity  *)
(* (what `_rd_u32` returns, what `x & 0xFFFFFFFF` yields) is kept as two   *)
(* 16-bit limbs [hi, lo] standing for hi * 2^16 + lo.                      *)
(*                                                                         *)
(* A Python value is a record with one field, named by its type:           *)
(*   [int |-> n]     an integer                                            *)
(*   [bool |-> b]    a BOOLEAN                                             *)
(*   [str |-> s]     a sequence of code points                             *)
(*   [double |-> f]  f = [neg, mant, exp], the float (-1)^neg * mant *     *)
(*                   2^exp with mant a limb pair, odd unless the float is  *)
(*                   0.0                                                   *)
(*   [arr |-> a]     a sequence of values (list)                           *)
(*   [struct |-> d]  a sequence of <<key, value>> pairs with distinct      *)
(*                   keys, in insertion order (dict)                       *)
(*   [none |-> 0]    None                                                  *)
(* A call that can raise returns [ok |-> TRUE, ...] or                     *)
(* [ok |-> FALSE, err |-> <exception type>].                               *)
(***************************************************************************)
EXTENDS Integers, Sequences, FiniteSets, TLC

VARIABLES
    pc,        \* codec session: position of the caller ("idle", "encoded", "decoded")
    call,      \* codec session: the operation being exercised and its inputs
    wire,      \* codec session: the bytes handed from the encoder to the decoder
    result,    \* codec session: what the decoder returned (or raised)
    sock,      \* connection: bytes written by the peer, not yet read by the server
    sent,      \* connection: requests the peer has written, in order
    rx,        \* connection: the server's frame reader (state, header, body so far)
    calls,     \* connection: handler invocations <<method, params>>, in order
    store,     \* connection: the values kept by the registered setValue/getValue
    replies,   \* connection: response frames written by the server, in order
    recv,      \* recv_exact: the call in progress and the socket it reads
    central    \* orchestrator: its state and the state of each interface

vars == <<pc, call, wire, result, sock, sent, rx, calls, store, replies,
          recv, central>>
codecVars == <<pc, call, wire, result>>
connVars == <<sock, sent, rx, calls, store, replies>>
otherVars == <<recv, central>>

(***************************************************************************)
(* const.py                                                                *)
(***************************************************************************)
DEFAULT_ENCODING == "utf-8"
HDR_REQ == <<66, 105, 110, 0>>
HDR_RES == <<66, 105, 110, 1>>
T_INTEGER == 1
T_BOOL == 2
T_STRING == 3
T_DOUBLE == 4
T_ARRAY == 256
T_STRUCT == 257
T_BINARY == 14

(***************************************************************************)
(* Bounds of the model                                                     *)
(***************************************************************************)
\* Deepest nesting of containers in the values drawn as inputs.
MaxDepth == 3
\* Most bytes by which a peer's header under-reports its frame.
MaxCut == 4
\* Most requests a peer writes on one connection.
MaxRequests == 2
\* Most elements, or bytes of a String, by which a peer's declared count
\* exceeds what it wrote.
MaxMissing == 2
\* Most interfaces an orchestrator is configured with.
MaxInterfaces == 3
\* Most bytes asked of recv_exact.
MaxRecv == 3

(***************************************************************************)
(* Results of calls that can raise                                         *)
(***************************************************************************)
Raise(e) == [ok |-> FALSE, err |-> e]
Bytes(bs) == [ok |-> TRUE, bytes |-> bs]
Ret(v, ofs) == [ok |-> TRUE, val |-> v, ofs |-> ofs]

(***************************************************************************)
(* Python values                                                           *)
(***************************************************************************)
IntV(n) == [int |-> n]
BoolV(b) == [bool |-> b]
StrV(s) == [str |-> s]
ArrV(a) == [arr |-> a]
StructV(d) == [struct |-> d]
DoubleV(f) == [double |-> f]
NoneV == [none |-> 0]
\* isinstance(v, <type>)
Is(v, type) == type \in DOMAIN v

(***************************************************************************)
(* Unsigned 32-bit quantities as limb pairs                                *)
(***************************************************************************)
\* The limb pair of a natural below 2^31.
U(n) == [hi |-> (n \div 65536), lo |-> (n % 65536)]
\* The natural a limb pair stands for (within TLC's integers below 2^31).
N(w) == w.hi * 65536 + w.lo
\* A Python int, which has no fixed width, as q * 2^16 + r with
\* 0 <= r < 2^16; PyInt gives that form of an integer of the model.
PyInt(i) == [q |-> (i \div 65536), r |-> (i % 65536)]
\* n & 0xFFFFFFFF for a Python int n: the low 32 bits of its two's
\* complement, % flooring as & does.
and_0xFFFFFFFF(n) == [hi |-> (n.q % 65536), lo |-> n.r]

\* bytes and buffers
Byte == 0..255
\* buf[lo:hi] of Python: the slice is clipped to the buffer, never an error.
Slice(buf, lo, hi) ==
    LET l == IF lo > Len(buf) THEN Len(buf) ELSE lo
        h == IF hi > Len(buf) THEN Len(buf) ELSE hi
    IN  IF h <= l THEN <<>> ELSE SubSeq(buf, l + 1, h)

\* support.py:20 struct.pack(">I", n)
_be_u32(n) == <<(n.hi \div 256), (n.hi % 256), (n.lo \div 256), (n.lo % 256)>>

\* support.py:25 struct.unpack_from(">I", buf, ofs): struct.error unless 4
\* bytes lie at ofs.
_rd_u32(buf, ofs) ==
    IF ofs + 4 > Len(buf)
    THEN Raise("struct.error")
    ELSE Ret([hi |-> (buf[ofs + 1] * 256) + buf[ofs + 2],
              lo |-> (buf[ofs + 3] * 256) + buf[ofs + 4]], ofs + 4)

(***************************************************************************)
(* str.encode(encoding, errors="strict") and                               *)
(* bytes.decode(encoding, errors="replace") for the three codecs modelled  *)
(***************************************************************************)
Encodings == {"utf-8", "latin-1", "ascii"}
REPLACEMENT == 65533

IsSurrogate(c) == c >= 55296 /\ c <= 57343

CanEncode(c, encoding) ==
    CASE encoding = "ascii" -> c < 128
      [] encoding = "latin-1" -> c < 256
      [] OTHER -> ~IsSurrogate(c)

EncodeChar(c, encoding) ==
    IF encoding # "utf-8" THEN <<c>>
    ELSE IF c < 128 THEN <<c>>
    ELSE IF c < 2048 THEN <<192 + (c \div 64), 128 + (c % 64)>>
    ELSE IF c < 65536
         THEN <<224 + (c \div 4096), 128 + ((c \div 64) % 64), 128 + (c % 64)>>
    ELSE <<240 + (c \div 262144), 128 + ((c \div 4096) % 64),
           128 + ((c \div 64) % 64), 128 + (c % 64)>>

RECURSIVE EncodeChars(_, _)
EncodeChars(s, encoding) ==
    IF s = <<>> THEN <<>>
    ELSE EncodeChar(Head(s), encoding) \o EncodeChars(Tail(s), encoding)

IsCont(x) == x >= 128 /\ x <= 191

\* UTF-8 decoding with errors="replace": one U+FFFD per maximal ill-formed
\* subsequence (a truncated sequence at the end of the data included).
\* Returns <<code point, bytes consumed>> for the sequence starting at bs[1].
Utf8Step(bs) ==
    LET b0 == bs[1]
        n == Len(bs)
        \* the range the second byte must lie in, by lead byte
        lo2 == IF b0 = 224 THEN 160 ELSE IF b0 = 240 THEN 144 ELSE 128
        hi2 == IF b0 = 237 THEN 159 ELSE IF b0 = 244 THEN 143 ELSE 191
        need == IF b0 < 128 THEN 1
                ELSE IF b0 >= 194 /\ b0 <= 223 THEN 2
                ELSE IF b0 >= 224 /\ b0 <= 239 THEN 3
                ELSE IF b0 >= 240 /\ b0 <= 244 THEN 4
                ELSE 0
        ok2 == n >= 2 /\ bs[2] >= lo2 /\ bs[2] <= hi2
        ok3 == n >= 3 /\ IsCont(bs[3])
        ok4 == n >= 4 /\ IsCont(bs[4])
    IN  CASE need = 1 -> <<b0, 1>>
          [] need = 0 -> <<REPLACEMENT, 1>>
          [] need = 2 ->
                IF ok2 THEN <<(b0 - 192) * 64 + (bs[2] - 128), 2>>
                ELSE <<REPLACEMENT, 1>>
          [] need = 3 ->
                IF ~ok2 THEN <<REPLACEMENT, 1>>
                ELSE IF ~ok3 THEN <<REPLACEMENT, 2>>
                ELSE <<(b0 - 224) * 4096 + (bs[2] - 128) * 64 + (bs[3] - 128), 3>>
          [] OTHER ->
                IF ~ok2 THEN <<REPLACEMENT, 1>>
                ELSE IF ~ok3 THEN <<REPLACEMENT, 2>>
                ELSE IF ~ok4 THEN <<REPLACEMENT, 3>>
                ELSE <<(b0 - 240) * 262144 + (bs[2] - 128) * 4096
                       + (bs[3] - 128) * 64 + (bs[4] - 128), 4>>

RECURSIVE Utf8Decode(_)
Utf8Decode(bs) ==
    IF bs = <<>> THEN <<>>
    ELSE LET st == Utf8Step(bs)
         IN  <<st[1]>> \o Utf8Decode(SubSeq(bs, st[2] + 1, Len(bs)))

\* bytes.decode(encoding, errors="replace")
Decode(bs, encoding) ==
    CASE encoding = "utf-8" -> Utf8Decode(bs)
      [] encoding = "latin-1" -> bs
      [] OTHER -> [i \in 1..Len(bs) |-> IF bs[i] < 128 THEN bs[i] ELSE REPLACEMENT]

\* support.py:30 s.encode(encoding=encoding, errors="strict")
_b(s, encoding) ==
    IF \A i \in 1..Len(s) : CanEncode(s[i], encoding)
    THEN Bytes(EncodeChars(s, encoding))
    ELSE Raise("UnicodeEncodeError")

(***************************************************************************)
(* Limb-pair arithmetic and Python floats                                  *)
(***************************************************************************)
LZero(w) == w.hi = 0 /\ w.lo = 0
LShr1(w) == [hi |-> (w.hi \div 2), lo |-> ((w.hi % 2) * 32768) + (w.lo \div 2)]
LShl1(w) == [hi |-> (w.hi * 2) + (w.lo \div 32768), lo |-> ((w.lo * 2) % 65536)]
\* (-w) & 0xFFFFFFFF
LNeg32(w) ==
    IF w.lo = 0 THEN [hi |-> ((65536 - w.hi) % 65536), lo |-> 0]
    ELSE [hi |-> 65535 - w.hi, lo |-> 65536 - w.lo]
\* the limb pair read as a two's-complement signed 32-bit integer
Signed32(w) == IF w.hi >= 32768 THEN ((w.hi - 65536) * 65536) + w.lo ELSE N(w)

RECURSIVE LBitLen(_)
LBitLen(w) == IF LZero(w) THEN 0 ELSE 1 + LBitLen(LShr1(w))

RECURSIVE LShift(_, _)
\* w * 2^s for s >= 0, floor(w / 2^-s) for s < 0
LShift(w, s) ==
    IF s = 0 THEN w
    ELSE IF s > 0 THEN LShift(LShl1(w), s - 1)
    ELSE LShift(LShr1(w), s + 1)

RECURSIVE Float(_, _, _)
\* the float (-1)^neg * mant * 2^exp, in its one representation
Float(neg, mant, exp) ==
    IF LZero(mant) THEN [neg |-> FALSE, mant |-> mant, exp |-> 0]
    ELSE IF mant.lo % 2 = 0 THEN Float(neg, LShr1(mant), exp + 1)
    ELSE [neg |-> neg, mant |-> mant, exp |-> exp]

(***************************************************************************)
(* Encoders (support.py:38-127)                                            *)
(***************************************************************************)
\* bytes + bytes where either operand may have raised
Cat(r1, r2) ==
    IF ~r1.ok THEN r1 ELSE IF ~r2.ok THEN r2 ELSE Bytes(r1.bytes \o r2.bytes)

\* str(v) for the values that are encoded through it
PyStr(v) == IF Is(v, "none") THEN <<78, 111, 110, 101>> ELSE v.str

\* support.py:38
enc_string(s, encoding) ==
    LET b == _b(s, encoding)
    IN  IF ~b.ok THEN b
        ELSE Bytes(_be_u32(U(T_STRING)) \o _be_u32(U(Len(b.bytes))) \o b.bytes)

\* support.py:44
enc_bool(v) == Bytes(_be_u32(U(T_BOOL)) \o (IF v THEN <<1>> ELSE <<0>>))

\* support.py:49
enc_integer(n) == Bytes(_be_u32(U(T_INTEGER)) \o _be_u32(and_0xFFFFFFFF(n)))

\* support.py:54.  value is a float record.  math.log(abs(value), 2) is a
\* quotient of two rounded logarithms: at an exact power of two it may come
\* out just below the integer, and floor() then yields one less; `under`
\* (0 or 1) is that outcome.  The scalings by powers of two are exact and
\* int() truncates toward zero.  Returns the mantissa as sign and magnitude.
_enc_double_parts(value, under) ==
    IF LZero(value.mant)
    THEN [mneg |-> FALSE, m |-> U(0), e |-> 0]
    ELSE LET len == LBitLen(value.mant)
             floorlog == (len - 1) + value.exp
                         - (IF len = 1 /\ under = 1 THEN 1 ELSE 0)
             exponent == floorlog + 1
         IN  [mneg |-> value.neg,
              m |-> LShift(value.mant, (value.exp - exponent) + 30),
              e |-> exponent]

\* support.py:65 struct.pack(">iI", e, m & 0xFFFFFFFF)
enc_double(v, under) ==
    LET p == _enc_double_parts(v, under)
        m32 == IF p.mneg THEN LNeg32(p.m) ELSE p.m
    IN  Bytes(_be_u32(U(T_DOUBLE)) \o _be_u32(and_0xFFFFFFFF(PyInt(p.e))) \o _be_u32(m32))

RECURSIVE enc_data(_, _)
RECURSIVE enc_array_items(_, _)
RECURSIVE enc_struct_items(_, _)

\* enc_array_items writing the elements last to first
enc_array_items_reversed(a, encoding) ==
    IF a = <<>> THEN Bytes(<<>>)
    ELSE Cat(enc_array_items(Tail(a), encoding), enc_data(Head(a), encoding))

\* support.py:76 for el in a: out += enc_data(v=el, encoding=encoding)
enc_array_items(a, encoding) ==
    IF a = <<>> THEN Bytes(<<>>)
    ELSE Cat(enc_data(Head(a), encoding), enc_array_items(Tail(a), encoding))

\* support.py:71
enc_array(a, encoding) ==
    Cat(Bytes(_be_u32(U(T_ARRAY)) \o _be_u32(U(Len(a)))),
        enc_array_items(a, encoding))

\* support.py:86 for k, v in d.items(): length-prefixed key, then the value
enc_struct_items(d, encoding) ==
    IF d = <<>> THEN Bytes(<<>>)
    ELSE LET kb == _b(Head(d)[1], encoding)
         IN  IF ~kb.ok THEN kb
             ELSE Cat(Cat(Bytes(_be_u32(U(Len(kb.bytes))) \o kb.bytes),
                          enc_data(Head(d)[2], encoding)),
                      enc_struct_items(Tail(d), encoding))

\* support.py:81
enc_struct(d, encoding) ==
    Cat(Bytes(_be_u32(U(T_STRUCT)) \o _be_u32(U(Len(d)))),
        enc_struct_items(d, encoding))

\* support.py:93.  A float met here takes the exact logarithm (under = 0).
enc_data(v, encoding) ==
    CASE Is(v, "bool") -> enc_bool(v.bool)
      [] Is(v, "int") -> enc_integer(PyInt(v.int))
      [] Is(v, "double") -> enc_double(v.double, 0)
      [] Is(v, "str") -> enc_string(v.str, encoding)
      [] Is(v, "arr") -> enc_array(v.arr, encoding)
      [] Is(v, "struct") -> enc_struct(v.struct, encoding)
      [] OTHER -> enc_string(PyStr(v), encoding)

\* enc_request with the header left out of the total
enc_request_body_total(method, params, encoding) ==
    LET m == _b(method, encoding)
        body == IF ~m.ok THEN m
                ELSE Cat(Bytes(_be_u32(U(Len(m.bytes))) \o m.bytes
                               \o _be_u32(U(Len(params)))),
                         enc_array_items(params, encoding))
    IN  IF ~body.ok THEN body
        ELSE LET total == Len(body.bytes)
             IN  Bytes(HDR_REQ \o _be_u32(U(total)) \o body.bytes)

\* support.py:110
enc_request(method, params, encoding) ==
    LET m == _b(method, encoding)
        body == IF ~m.ok THEN m
                ELSE Cat(Bytes(_be_u32(U(Len(m.bytes))) \o m.bytes
                               \o _be_u32(U(Len(params)))),
                         enc_array_items(params, encoding))
    IN  IF ~body.ok THEN body
        ELSE LET total == 8 + Len(body.bytes)
             IN  Bytes(HDR_REQ \o _be_u32(U(total)) \o body.bytes)

\* enc_response writing the status alone, no payload, for None
enc_response_bare(ret, encoding) ==
    LET payload == IF Is(ret, "none") THEN Bytes(<<>>)
                   ELSE enc_data(ret, encoding)
        body == Cat(Bytes(_be_u32(U(0))), payload)
    IN  IF ~body.ok THEN body
        ELSE LET total == 8 + Len(body.bytes)
             IN  Bytes(HDR_RES \o _be_u32(U(total)) \o body.bytes)

\* enc_response writing the empty string whatever the value returned
enc_response_empty(ret, encoding) ==
    LET payload == enc_string(<<>>, encoding)
        body == Cat(Bytes(_be_u32(U(0))), payload)
    IN  IF ~body.ok THEN body
        ELSE LET total == 8 + Len(body.bytes)
             IN  Bytes(HDR_RES \o _be_u32(U(total)) \o body.bytes)

\* support.py:122
enc_response(ret, encoding) ==
    LET payload == IF Is(ret, "none") THEN enc_string(<<>>, encoding)
                   ELSE enc_data(ret, encoding)
        body == Cat(Bytes(_be_u32(U(0))), payload)
    IN  IF ~body.ok THEN body
        ELSE LET total == 8 + Len(body.bytes)
             IN  Bytes(HDR_RES \o _be_u32(U(total)) \o body.bytes)

(***************************************************************************)
(* Decoders (support.py:133-221)                                           *)
(***************************************************************************)
\* support.py:133.  2**e is an int for e >= 0: the product raises
\* OverflowError once it no longer converts to a float.
_dec_double(buf, ofs) ==
    LET e == _rd_u32(buf, ofs)
        mu32 == _rd_u32(buf, ofs + 4)
    IN  IF ~e.ok THEN e
        ELSE IF ~mu32.ok THEN mu32
        ELSE IF Signed32(e.val) >= 1024 THEN Raise("OverflowError")
        ELSE Ret(DoubleV(Float(FALSE, mu32.val, Signed32(e.val) - 30)), mu32.ofs)

\* support.py:140.  The slice is clipped to the buffer; the offset is not.
_dec_string(buf, ofs, encoding) ==
    LET length == _rd_u32(buf, ofs)
    IN  IF ~length.ok THEN length
        ELSE Ret(StrV(Decode(Slice(buf, length.ofs, length.ofs + N(length.val)),
                             encoding)),
                 length.ofs + N(length.val))

\* support.py:147 buf[ofs] == 1: IndexError past the end
_dec_bool(buf, ofs) ==
    IF ofs >= Len(buf) THEN Raise("IndexError")
    ELSE Ret(BoolV(buf[ofs + 1] = 1), ofs + 1)

\* _dec_int reading the top bit as a sign over a magnitude
_dec_int_sign_magnitude(buf, ofs) ==
    LET v == _rd_u32(buf, ofs)
    IN  IF ~v.ok THEN v
        ELSE Ret(IntV(IF v.val.hi >= 32768
                      THEN -(((v.val.hi - 32768) * 65536) + v.val.lo)
                      ELSE N(v.val)), v.ofs)

\* support.py:152.  v & 0x80000000 is the top bit; -((~v + 1) & 0xFFFFFFFF)
\* is v - 2^32 for such v.
_dec_int(buf, ofs) ==
    LET v == _rd_u32(buf, ofs)
    IN  IF ~v.ok THEN v
        ELSE Ret(IntV(IF v.val.hi >= 32768
                      THEN ((v.val.hi - 65536) * 65536) + v.val.lo
                      ELSE N(v.val)), v.ofs)

\* DictSet with every pair put in front: the keys come out in reverse order
DictSet_front(d, key, val) ==
    <<<<key, val>>>> \o SelectSeq(d, LAMBDA kv : kv[1] # key)

\* outd[key] = val: a key already present keeps its place and takes the
\* new value
DictSet(d, key, val) ==
    IF \E i \in 1..Len(d) : d[i][1] = key
    THEN [i \in 1..Len(d) |-> IF d[i][1] = key THEN <<key, val>> ELSE d[i]]
    ELSE Append(d, <<key, val>>)

\* _unsupported skipping the tag it does not know instead of raising
_unsupported_skip(buf, t, ofs) == Ret(NoneV, ofs)

\* support.py:186 raise ValueError(f"Unsupported BIN-RPC type 0x{t:08X}")
_unsupported(buf, t, ofs) == Raise("ValueError")

RECURSIVE dec_data(_, _, _)
RECURSIVE dec_array_loop(_, _, _, _, _)
RECURSIVE dec_struct_loop(_, _, _, _, _)

\* support.py:174 for _ in range(n): val, ofs = dec_data(...); outl.append(val)
dec_array_loop(buf, encoding, ofs, n, outl) ==
    IF n = 0 THEN Ret(ArrV(outl), ofs)
    ELSE LET r == dec_data(buf, encoding, ofs)
         IN  IF ~r.ok THEN r
             ELSE dec_array_loop(buf, encoding, r.ofs, n - 1, Append(outl, r.val))

\* support.py:181 for _ in range(n): key, value, outd[key] = val
dec_struct_loop(buf, encoding, ofs, n, outd) ==
    IF n = 0 THEN Ret(StructV(outd), ofs)
    ELSE LET key == _dec_string(buf, ofs, encoding)
         IN  IF ~key.ok THEN key
             ELSE LET r == dec_data(buf, encoding, key.ofs)
                  IN  IF ~r.ok THEN r
                      ELSE dec_struct_loop(buf, encoding, r.ofs, n - 1,
                                           DictSet(outd, key.val.str, r.val))

\* support.py:160
dec_data(buf, encoding, ofs) ==
    LET t == _rd_u32(buf, ofs)
    IN  IF ~t.ok THEN t
        ELSE IF t.val = U(T_STRING) THEN _dec_string(buf, t.ofs, encoding)
        ELSE IF t.val = U(T_BOOL) THEN _dec_bool(buf, t.ofs)
        ELSE IF t.val = U(T_INTEGER) THEN _dec_int(buf, t.ofs)
        ELSE IF t.val = U(T_DOUBLE) THEN _dec_double(buf, t.ofs)
        ELSE IF t.val = U(T_ARRAY) THEN
            LET n == _rd_u32(buf, t.ofs)
            IN  IF ~n.ok THEN n
                ELSE dec_array_loop(buf, encoding, n.ofs, N(n.val), <<>>)
        ELSE IF t.val = U(T_STRUCT) THEN
            LET n == _rd_u32(buf, t.ofs)
            IN  IF ~n.ok THEN n
                ELSE dec_struct_loop(buf, encoding, n.ofs, N(n.val), <<>>)
        ELSE _unsupported(buf, t.val, t.ofs)

\* support.py:189.  Returns [ok, method, params].
dec_request(frame, encoding) ==
    IF Len(frame) < 8 \/ Slice(frame, 0, 4) # HDR_REQ
       \/ Slice(frame, 4, 8) # _be_u32(U(Len(frame)))
    THEN Raise("ValueError")
    ELSE LET body == Slice(frame, 8, Len(frame))
             method == _dec_string(body, 0, encoding)
         IN  IF ~method.ok THEN method
             ELSE LET n == _rd_u32(body, method.ofs)
                  IN  IF ~n.ok THEN n
                      ELSE LET ps == dec_array_loop(body, encoding, n.ofs,
                                                    N(n.val), <<>>)
                           IN  IF ~ps.ok THEN ps
                               ELSE [ok |-> TRUE, method |-> method.val.str,
                                     params |-> ps.val.arr]

\* dec_response giving no result for a status other than 0
dec_response_strict(frame) ==
    IF Len(frame) < 8 \/ Slice(frame, 0, 4) # HDR_RES
       \/ Slice(frame, 4, 8) # _be_u32(U(Len(frame)))
    THEN Raise("ValueError")
    ELSE LET body == Slice(frame, 8, Len(frame))
             status == _rd_u32(body, 0)
         IN  IF ~status.ok THEN status
             ELSE IF status.ofs >= Len(body) \/ status.val # U(0)
                  THEN [ok |-> TRUE, val |-> NoneV]
             ELSE LET v == dec_data(body, DEFAULT_ENCODING, status.ofs)
                  IN  IF ~v.ok THEN v ELSE [ok |-> TRUE, val |-> v.val]

\* support.py:204.  Returns [ok, val]; the status is read and dropped, the
\* payload is decoded under DEFAULT_ENCODING.
dec_response(frame) ==
    IF Len(frame) < 8 \/ Slice(frame, 0, 4) # HDR_RES
       \/ Slice(frame, 4, 8) # _be_u32(U(Len(frame)))
    THEN Raise("ValueError")
    ELSE LET body == Slice(frame, 8, Len(frame))
             status == _rd_u32(body, 0)
         IN  IF ~status.ok THEN status
             ELSE IF status.ofs >= Len(body) THEN [ok |-> TRUE, val |-> NoneV]
             ELSE LET v == dec_data(body, DEFAULT_ENCODING, status.ofs)
                  IN  IF ~v.ok THEN v ELSE [ok |-> TRUE, val |-> v.val]

(***************************************************************************)
(* Inputs of the codec session                                             *)
(***************************************************************************)
IntSamples == {-2147483647 - 1, -2147483647, -65536, -1, 0, 1, 42, 65535,
               2147483647}
\* "", "A", "é", "€A", "Aé€" and an astral character
StrSamples == {<<>>, <<65>>, <<233>>, <<8364, 65>>, <<65, 233, 8364>>,
               <<128512>>}
KeySamples == {<<107>>, <<233>>}
Scalars == {IntV(n) : n \in IntSamples} \cup {BoolV(b) : b \in BOOLEAN}
           \cup {StrV(s) : s \in StrSamples}
Leaves == {IntV(-1), BoolV(TRUE), StrV(<<233>>), StrV(<<>>),
           ArrV(<<>>), StructV(<<>>)}

\* the containers built directly around x
Wrap(x) ==
    {ArrV(<<x>>), ArrV(<<IntV(7), x>>), ArrV(<<x, StrV(<<65>>)>>),
     StructV(<<<<(<<107>>), x>>>>), StructV(<<<<(<<233>>), x>>>>),
     StructV(<<<<(<<107>>), x>>, <<(<<233>>), IntV(7)>>>>),
     StructV(<<<<(<<233>>), BoolV(FALSE)>>, <<(<<107>>), x>>>>)}

RECURSIVE Nested(_)
\* values nested at most d containers deep
Nested(d) ==
    IF d = 0 THEN Leaves
    ELSE LET inner == Nested(d - 1)
         IN  inner \cup UNION {Wrap(x) : x \in inner}

Values == Scalars \cup Nested(MaxDepth)

\* floats m * 2^e, of either sign, with mantissas of 1 to 31 bits
MantSamples == {0, 1, 3, 5, 12345, 1073741823, 1073741825, 2147483647}
ExpSamples == {-40, -31, -29, -1, 0, 1, 10}
Doubles == {Float(neg, U(m), e) :
                neg \in BOOLEAN, m \in MantSamples, e \in ExpSamples}

Methods == {<<101, 118, 101, 110, 116>>, <<233>>}
ParamLists == {<<>>} \cup {<<x>> : x \in Nested(1)}
              \cup {<<x, y>> : x \in Leaves, y \in Leaves}
Returns == {NoneV} \cup Scalars \cup Nested(1)

\* status codes and type tags a peer may send, as limb pairs
Statuses == {U(0), U(1), U(7), [hi |-> 32768, lo |-> 0],
             [hi |-> 65535, lo |-> 65535]}
KnownTags == {U(T_INTEGER), U(T_BOOL), U(T_STRING), U(T_DOUBLE),
              U(T_ARRAY), U(T_STRUCT)}
ForeignTags == {U(0), U(5), U(T_BINARY), U(255), U(258), U(65536),
                U(16777216), U(50331648), [hi |-> 32768, lo |-> 1],
                [hi |-> 65535, lo |-> 65535]}
\* what a peer may put after a tag
Junk == {<<>>, <<1>>, <<0, 0, 0, 0>>, <<0, 0, 0, 1, 0, 0, 0, 3, 0, 0, 0, 0>>}

\* a peer's buffers holding node x inside well-formed containers
WrapBytes(x) ==
    {_be_u32(U(T_ARRAY)) \o _be_u32(U(1)) \o x,
     _be_u32(U(T_ARRAY)) \o _be_u32(U(2)) \o enc_integer(PyInt(7)).bytes \o x,
     _be_u32(U(T_ARRAY)) \o _be_u32(U(2)) \o x \o enc_bool(TRUE).bytes,
     _be_u32(U(T_STRUCT)) \o _be_u32(U(1)) \o _be_u32(U(1)) \o <<107>> \o x,
     _be_u32(U(T_STRUCT)) \o _be_u32(U(2)) \o _be_u32(U(1)) \o <<107>>
         \o enc_string(<<65>>, "ascii").bytes \o _be_u32(U(1)) \o <<108>> \o x}

RECURSIVE NestedBytes(_, _)
\* x at nesting depth exactly d
NestedBytes(x, d) ==
    IF d = 0 THEN {x}
    ELSE UNION {WrapBytes(y) : y \in NestedBytes(x, d - 1)}

\* integers beyond the signed 32-bit range, and at its ends: 2^31, 2^32,
\* 2^32 + 5, 2^40 + 1, 2^45 + 2^31, -2^31 - 1, -2^32, -2^40 - 1, -2^31,
\* 2^31 - 1, -1, 0
WideInts == {[q |-> 32768, r |-> 0], [q |-> 65536, r |-> 0],
             [q |-> 65536, r |-> 5], [q |-> 16777216, r |-> 1],
             [q |-> 536903680, r |-> 0], [q |-> -32769, r |-> 65535],
             [q |-> -65536, r |-> 0], [q |-> -16777217, r |-> 65535],
             [q |-> -32768, r |-> 0], [q |-> 32767, r |-> 65535],
             [q |-> -1, r |-> 65535], [q |-> 0, r |-> 0]}
            \cup {PyInt(i) : i \in IntSamples}

\* elements a peer writes into a container or a parameter list
ElemSamples == {IntV(7), BoolV(TRUE), StrV(<<65, 66>>), ArrV(<<IntV(1)>>)}
ElemLists == {<<>>} \cup {<<e>> : e \in ElemSamples}
             \cup {<<IntV(7), e>> : e \in ElemSamples}
\* the i-th pair of a struct: the key "a", "b", "c" and the element
PairBytes(i, e) ==
    _be_u32(U(1)) \o <<96 + i>> \o enc_data(e, DEFAULT_ENCODING).bytes
RECURSIVE PairsBytes(_, _)
PairsBytes(es, i) ==
    IF es = <<>> THEN <<>>
    ELSE PairBytes(i, Head(es)) \o PairsBytes(Tail(es), i + 1)
\* A peer's buffer of the kind given, declaring `declared` elements, holding
\* the elements es whole and after them the first `keep` bytes of the
\* element e.
ShortBytes(kind, es, declared, e, keep) ==
    LET items == enc_array_items(es, DEFAULT_ENCODING).bytes
        more == enc_data(e, DEFAULT_ENCODING).bytes
    IN  CASE kind = "array" ->
               _be_u32(U(T_ARRAY)) \o _be_u32(U(declared)) \o items
               \o Slice(more, 0, keep)
          [] kind = "struct" ->
               _be_u32(U(T_STRUCT)) \o _be_u32(U(declared)) \o PairsBytes(es, 1)
               \o Slice(PairBytes(Len(es) + 1, e), 0, keep)
          [] kind = "request" ->
               LET body == _be_u32(U(5)) \o <<101, 118, 101, 110, 116>>
                           \o _be_u32(U(declared)) \o items
                           \o Slice(more, 0, keep)
               IN  HDR_REQ \o _be_u32(U(8 + Len(body))) \o body

(***************************************************************************)
(* The codec session: a caller encodes, or a peer writes bytes, and the    *)
(* decoder is run on them                                                  *)
(***************************************************************************)
NoResult == Raise("none")

ConnIdle ==
    /\ sock = <<>>
    /\ sent = <<>>
    /\ rx = [st |-> "closed", declared |-> 0, body |-> <<>>, extra |-> 0]
    /\ calls = <<>>
    /\ store = <<>>
    /\ replies = <<>>

\* no recv_exact call in progress, no orchestrator created
OtherIdle ==
    /\ recv = [pc |-> "none"]
    /\ central = [state |-> "none"]

CodecIdle ==
    /\ pc = "idle"
    /\ call = [op |-> "none"]
    /\ wire = Bytes(<<>>)
    /\ result = NoResult

Init ==
    /\ CodecIdle
    /\ ConnIdle
    /\ OtherIdle

\* enc_data(v=v, encoding=encoding)
EncodeData ==
    /\ pc = "idle"
    /\ \E v \in Values, encoding \in Encodings :
          /\ call' = [op |-> "data", v |-> v, encoding |-> encoding]
          /\ wire' = enc_data(v, encoding)
    /\ pc' = "encoded"
    /\ UNCHANGED <<result, connVars, otherVars>>

\* enc_data(v=v, encoding=encoding) for a float and for a value of none of
\* the kinds enc_data tests for
EncodeOther ==
    /\ pc = "idle"
    /\ \E v \in {NoneV} \cup {DoubleV(f) : f \in Doubles},
          encoding \in Encodings :
          /\ call' = [op |-> "data_other", v |-> v, encoding |-> encoding]
          /\ wire' = enc_data(v, encoding)
    /\ pc' = "encoded"
    /\ UNCHANGED <<result, connVars, otherVars>>

\* enc_integer(n=n)
EncodeInteger ==
    /\ pc = "idle"
    /\ \E n \in WideInts :
          /\ call' = [op |-> "integer", n |-> n,
                      encoding |-> DEFAULT_ENCODING]
          /\ wire' = enc_integer(n)
    /\ pc' = "encoded"
    /\ UNCHANGED <<result, connVars, otherVars>>

\* enc_double(v=v)
EncodeDouble ==
    /\ pc = "idle"
    /\ \E v \in Doubles, under \in {0, 1} :
          /\ call' = [op |-> "double", v |-> v, under |-> under,
                      encoding |-> DEFAULT_ENCODING]
          /\ wire' = enc_double(v, under)
    /\ pc' = "encoded"
    /\ UNCHANGED <<result, connVars, otherVars>>

\* enc_request(method=method, params=params, encoding=encoding)
EncodeRequest ==
    /\ pc = "idle"
    /\ \E method \in Methods, params \in ParamLists, encoding \in Encodings :
          /\ call' = [op |-> "request", method |-> method, params |-> params,
                      encoding |-> encoding]
          /\ wire' = enc_request(method, params, encoding)
    /\ pc' = "encoded"
    /\ UNCHANGED <<result, connVars, otherVars>>

\* enc_response(ret=ret, encoding=encoding)
EncodeResponse ==
    /\ pc = "idle"
    /\ \E ret \in Returns, encoding \in Encodings :
          /\ call' = [op |-> "response", ret |-> ret, encoding |-> encoding]
          /\ wire' = enc_response(ret, encoding)
    /\ pc' = "encoded"
    /\ UNCHANGED <<result, connVars, otherVars>>

\* a peer writes a Bool: the tag and any byte
PeerBool ==
    /\ pc = "idle"
    /\ \E b \in Byte, d \in 0..1 :
          /\ call' = [op |-> "peer_bool", b |-> b, depth |-> d,
                      encoding |-> DEFAULT_ENCODING]
          /\ wire' = Bytes(IF d = 0 THEN _be_u32(U(T_BOOL)) \o <<b>>
                           ELSE _be_u32(U(T_ARRAY)) \o _be_u32(U(1))
                                \o _be_u32(U(T_BOOL)) \o <<b>>)
    /\ pc' = "encoded"
    /\ UNCHANGED <<result, connVars, otherVars>>

\* a peer writes a value one of whose nodes carries any tag
PeerValue ==
    /\ pc = "idle"
    /\ \E t \in KnownTags \cup ForeignTags, j \in Junk, d \in 0..MaxDepth :
          \E bs \in NestedBytes(_be_u32(t) \o j, d) :
             /\ call' = [op |-> "peer_value", tag |-> t, depth |-> d,
                         encoding |-> DEFAULT_ENCODING]
             /\ wire' = Bytes(bs)
    /\ pc' = "encoded"
    /\ UNCHANGED <<result, connVars, otherVars>>

\* a peer writes a response frame: any status, then a value or nothing
PeerResponse ==
    /\ pc = "idle"
    /\ \E s \in Statuses, has \in BOOLEAN, v \in Returns \ {NoneV} :
          LET payload == IF has THEN enc_data(v, DEFAULT_ENCODING).bytes
                         ELSE <<>>
          IN  /\ call' = [op |-> "peer_response", status |-> s, has |-> has,
                          payload |-> payload]
              /\ wire' = Bytes(HDR_RES \o _be_u32(U(12 + Len(payload)))
                               \o _be_u32(s) \o payload)
    /\ pc' = "encoded"
    /\ UNCHANGED <<result, connVars, otherVars>>

\* a peer writes an Array, a Struct or a request whose declared count is
\* larger than the number of elements in the buffer: the buffer ends at an
\* element boundary or part-way through one more element
PeerShort ==
    /\ pc = "idle"
    /\ \E kind \in {"array", "struct", "request"}, es \in ElemLists,
          missing \in 1..MaxMissing, e \in ElemSamples :
          \E keep \in 0..(Len(ShortBytes(kind, <<>>, 0, e, 99))
                          - Len(ShortBytes(kind, <<>>, 0, e, 0)) - 1) :
             /\ call' = [op |-> "peer_short", kind |-> kind,
                         present |-> Len(es), declared |-> Len(es) + missing,
                         next |-> e, keep |-> keep,
                         encoding |-> DEFAULT_ENCODING]
             /\ wire' = Bytes(ShortBytes(kind, es, Len(es) + missing, e, keep))
    /\ pc' = "encoded"
    /\ UNCHANGED <<result, connVars, otherVars>>

\* a peer writes a String, or a Struct of one pair under a key, declaring
\* `missing` bytes more than the buffer holds after the length field
PeerString ==
    /\ pc = "idle"
    /\ \E s \in {<<>>, <<65>>, <<65, 66, 67>>}, missing \in 0..MaxMissing,
          key \in BOOLEAN :
          /\ call' = [op |-> "peer_string", s |-> s, missing |-> missing,
                      key |-> key, encoding |-> DEFAULT_ENCODING]
          /\ wire' = Bytes(IF key
                           THEN _be_u32(U(T_STRUCT)) \o _be_u32(U(1))
                                \o _be_u32(U(Len(s) + missing)) \o s
                           ELSE _be_u32(U(T_STRING))
                                \o _be_u32(U(Len(s) + missing)) \o s)
    /\ pc' = "encoded"
    /\ UNCHANGED <<result, connVars, otherVars>>

\* dec_data(buf=wire, encoding=encoding)
DecodeData ==
    /\ pc = "encoded"
    /\ \/ call.op \in {"data", "data_other", "double", "peer_bool",
                       "peer_value", "peer_string", "integer"}
       \/ call.op = "peer_short" /\ call.kind # "request"
    /\ wire.ok
    /\ result' = dec_data(wire.bytes, call.encoding, 0)
    /\ pc' = "decoded"
    /\ UNCHANGED <<call, wire, connVars, otherVars>>

\* dec_request(frame=wire, encoding=encoding)
DecodeRequest ==
    /\ pc = "encoded"
    /\ \/ call.op = "request"
       \/ call.op = "peer_short" /\ call.kind = "request"
    /\ wire.ok
    /\ result' = dec_request(wire.bytes, call.encoding)
    /\ pc' = "decoded"
    /\ UNCHANGED <<call, wire, connVars, otherVars>>

\* dec_response(frame=wire)
DecodeResponse ==
    /\ pc = "encoded"
    /\ call.op \in {"response", "peer_response"}
    /\ wire.ok
    /\ result' = dec_response(wire.bytes)
    /\ pc' = "decoded"
    /\ UNCHANGED <<call, wire, connVars, otherVars>>

Next ==
    \/ EncodeData
    \/ EncodeOther
    \/ EncodeInteger
    \/ EncodeDouble
    \/ EncodeRequest
    \/ EncodeResponse
    \/ PeerBool
    \/ PeerValue
    \/ PeerResponse
    \/ PeerShort
    \/ PeerString
    \/ DecodeData
    \/ DecodeRequest
    \/ DecodeResponse

Spec == Init /\ [][Next]_vars

(***************************************************************************)
(* Exact comparison of floats: naturals as bit sequences, lowest bit first *)
(***************************************************************************)
RECURSIVE Pow2(_)
Pow2(n) == IF n = 0 THEN 1 ELSE 2 * Pow2(n - 1)
BitsOf(w) ==
    [i \in 1..32 |-> IF i <= 16 THEN (w.lo \div Pow2(i - 1)) % 2
                     ELSE (w.hi \div Pow2(i - 17)) % 2]
Zeros(n) == [i \in 1..n |-> 0]
BShl(bits, n) == Zeros(n) \o bits
BPad(bits, n) == bits \o Zeros(n - Len(bits))
\* a <= b, for sequences of one length
BLeq(a, b) ==
    \/ a = b
    \/ \E i \in 1..Len(a) :
          a[i] < b[i] /\ \A j \in (i + 1)..Len(a) : a[j] = b[j]
RECURSIVE BSub(_, _, _)
\* a - b - borrow for a >= b, sequences of one length
BSub(a, b, borrow) ==
    IF a = <<>> THEN <<>>
    ELSE LET d == (a[1] - b[1]) - borrow
         IN  <<d % 2>> \o BSub(Tail(a), Tail(b), IF d < 0 THEN 1 ELSE 0)

\* |y - x| <= |x| * 2^-29: y is x up to the last bit of a 30-bit mantissa
FloatClose(x, y) ==
    IF LZero(x.mant) THEN LZero(y.mant)
    ELSE /\ ~LZero(y.mant)
         /\ x.neg = y.neg
         /\ (LBitLen(x.mant) + x.exp) - (LBitLen(y.mant) + y.exp) \in {-1, 0, 1}
         /\ LET e0 == IF x.exp < y.exp THEN x.exp ELSE y.exp
                X == BPad(BShl(BitsOf(x.mant), x.exp - e0), 96)
                Y == BPad(BShl(BitsOf(y.mant), y.exp - e0), 96)
                D == IF BLeq(X, Y) THEN BSub(Y, X, 0) ELSE BSub(X, Y, 0)
            IN  BLeq(BPad(BShl(SubSeq(D, 1, 66), 29), 96), X)

(***************************************************************************)
(* Claims on the codec                                                     *)
(***************************************************************************)
\* the frame with its status field overwritten
WithStatus(frame, s) ==
    Slice(frame, 0, 8) \o _be_u32(s) \o Slice(frame, 12, Len(frame))

\* a struct holding an array that holds a struct of two keys
StructArrayStruct(v) ==
    /\ Is(v, "struct")
    /\ \E i \in 1..Len(v.struct) :
          /\ Is(v.struct[i][2], "arr")
          /\ \E j \in 1..Len(v.struct[i][2].arr) :
                /\ Is(v.struct[i][2].arr[j], "struct")
                /\ Len(v.struct[i][2].arr[j].struct) = 2

\* C1: for a value built from Integers in the signed 32-bit range, Bools,
\* Strings the encoding can represent, and nested Arrays and Structs of
\* these, dec_data on the bytes of enc_data returns the value itself, Array
\* elements and Struct keys in their order, and as next offset the length of
\* the encoded bytes.
C1_RoundTrip ==
    (pc = "decoded" /\ call.op = "data")
        => result = Ret(call.v, Len(wire.bytes))

C1_Witness ==
    /\ pc = "decoded"
    /\ call.op = "data"
    /\ StructArrayStruct(call.v)
    /\ result = Ret(call.v, Len(wire.bytes))

\* C3: for every finite double, zero, positive or negative, enc_double
\* followed by dec_data yields a double within a small relative tolerance of
\* it, and 0.0 is written with exponent 0 and mantissa 0.
C3_DoubleRoundTrip ==
    (pc = "decoded" /\ call.op = "double")
        => /\ result.ok
           /\ Is(result.val, "double")
           /\ FloatClose(call.v, result.val.double)
           /\ LZero(call.v.mant)
                 => wire.bytes = _be_u32(U(T_DOUBLE)) \o Zeros(8)

\* The same for the doubles that are not negative.
DoubleRoundTripNonNegative ==
    (pc = "decoded" /\ call.op = "double" /\ ~call.v.neg)
        => /\ result.ok
           /\ Is(result.val, "double")
           /\ FloatClose(call.v, result.val.double)
           /\ LZero(call.v.mant)
                 => wire.bytes = _be_u32(U(T_DOUBLE)) \o Zeros(8)

\* C5: every frame enc_request or enc_response produces carries in header
\* bytes 4..7 the big-endian value 8 + body length, the actual length of the
\* frame, so the frame passes the header check of dec_request / dec_response.
C5_TrueLength ==
    (pc \in {"encoded", "decoded"} /\ call.op \in {"request", "response"}
     /\ wire.ok)
        => /\ Len(wire.bytes) >= 8
           /\ Slice(wire.bytes, 4, 8) = _be_u32(U(8 + (Len(wire.bytes) - 8)))
           /\ Slice(wire.bytes, 4, 8) = _be_u32(U(Len(wire.bytes)))
           /\ pc = "decoded" => result.ok

C5_Witness ==
    /\ pc = "decoded"
    /\ call.op = "request"
    /\ Len(call.params) = 2
    /\ result.ok
    /\ Slice(wire.bytes, 4, 8) = _be_u32(U(Len(wire.bytes)))

\* C6: dec_response on a valid response frame with any status returns what
\* it returns for the same frame with status 0: the decoded payload if one
\* is present, None if the body is the 4-byte status alone; a status other
\* than 0 neither raises nor suppresses the payload.
C6_StatusIgnored ==
    (pc = "decoded" /\ call.op = "peer_response")
        => /\ result = dec_response(WithStatus(wire.bytes, U(0)))
           /\ result.ok
           /\ result.val = IF call.has
                           THEN dec_data(call.payload, DEFAULT_ENCODING, 0).val
                           ELSE NoneV

C6_Witness ==
    /\ pc = "decoded"
    /\ call.op = "peer_response"
    /\ call.status = [hi |-> 65535, lo |-> 65535]
    /\ call.has
    /\ result.ok
    /\ Is(result.val, "struct")

\* C8: the configured text encoding is applied to every String-typed field in
\* both directions: a request decodes to the method name and parameters that
\* were encoded, and a String written by enc_response under an encoding is
\* what the response decoder returns, for every encoding.
C8_EncodingBothWays ==
    /\ (pc = "decoded" /\ call.op = "request")
          => result = [ok |-> TRUE, method |-> call.method,
                       params |-> call.params]
    /\ (pc = "decoded" /\ call.op = "response" /\ Is(call.ret, "str"))
          => result = [ok |-> TRUE, val |-> call.ret]

\* C9: for every byte b after a Bool tag dec_data returns false when b = 0
\* and true when b is anything else, and the offset just past that byte.
C9_BoolNormalised ==
    (pc = "decoded" /\ call.op = "peer_bool")
        => result = IF call.depth = 0
                    THEN Ret(BoolV(call.b # 0), 5)
                    ELSE Ret(ArrV(<<BoolV(call.b # 0)>>), 13)

\* C10: dec_data fails with the decode error, returning no value, whenever
\* the tag it reads, at any nesting depth, is none of the six recognized
\* tags (T_BINARY included); it succeeds only on the six.
C10_ForeignTagRaises ==
    (pc = "decoded" /\ call.op = "peer_value")
        => /\ call.tag \notin KnownTags => result = Raise("ValueError")
           /\ result.ok => call.tag \in KnownTags

C10_Witness ==
    /\ pc = "decoded"
    /\ call.op = "peer_value"
    /\ call.tag = U(T_BINARY)
    /\ call.depth = 2
    /\ result = Raise("ValueError")

\* dec_data does succeed on recognized tags met inside containers.
KnownTagDecoded ==
    /\ pc = "decoded"
    /\ call.op = "peer_value"
    /\ call.tag = U(T_STRING)
    /\ call.depth = 2
    /\ result.ok

(***************************************************************************)
(* The server side of one connection: the Frame Layer (spec 4.2) reading   *)
(* request frames off the socket and the Server Dispatcher (spec 4.4)      *)
(* answering them, over the codec above.                                   *)
(***************************************************************************)
\* spec 4.2 step 4: the bounded number of extra bytes a frame may take
ExtBudget == 3

M_event == <<101, 118, 101, 110, 116>>
M_setValue == <<115, 101, 116, 86, 97, 108, 117, 101>>
M_getValue == <<103, 101, 116, 86, 97, 108, 117, 101>>
M_multicall == <<115, 121, 115, 116, 101, 109, 46, 109, 117, 108, 116, 105,
                 99, 97, 108, 108>>
M_nope == <<110, 111, 112, 101>>
K_methodName == <<109, 101, 116, 104, 111, 100, 78, 97, 109, 101>>
K_params == <<112, 97, 114, 97, 109, 115>>
K_faultCode == <<102, 97, 117, 108, 116, 67, 111, 100, 101>>
K_faultString == <<102, 97, 117, 108, 116, 83, 116, 114, 105, 110, 103>>

\* the function table: the names registered on the server
Registered == {M_event, M_setValue, M_getValue}

\* spec 7 DispatchFault: the fault value put in a response payload
Fault(code, msg) ==
    StructV(<<<<K_faultCode, IntV(code)>>, <<K_faultString, StrV(msg)>>>>)
IsFault(v) ==
    /\ Is(v, "struct")
    /\ Len(v.struct) = 2
    /\ v.struct[1][1] = K_faultCode
    /\ v.struct[2][1] = K_faultString

Has(d, key) == \E i \in 1..Len(d) : d[i][1] = key
Get(d, key) == d[CHOOSE i \in 1..Len(d) : d[i][1] = key][2]

\* One call against the function table with the store st.  Returns the
\* value answered, the store afterwards and the handlers invoked.
Invoke(method, params, st) ==
    CASE method = M_event ->
            [ret |-> StrV(<<>>), store |-> st,
             invoked |-> <<<<method, params>>>>]
      [] method = M_setValue ->
            IF Len(params) = 2 /\ Is(params[1], "str")
            THEN [ret |-> StrV(<<>>),
                  store |-> DictSet(st, params[1].str, params[2]),
                  invoked |-> <<<<method, params>>>>]
            ELSE [ret |-> Fault(-1, method), store |-> st,
                  invoked |-> <<<<method, params>>>>]
      [] method = M_getValue ->
            IF Len(params) = 1 /\ Is(params[1], "str")
               /\ Has(st, params[1].str)
            THEN [ret |-> Get(st, params[1].str), store |-> st,
                  invoked |-> <<<<method, params>>>>]
            ELSE [ret |-> Fault(-1, method), store |-> st,
                  invoked |-> <<<<method, params>>>>]
      [] OTHER -> [ret |-> Fault(-1, method), store |-> st, invoked |-> <<>>]

IsSubCall(sub) ==
    /\ Is(sub, "struct")
    /\ Has(sub.struct, K_methodName)
    /\ Has(sub.struct, K_params)
    /\ Is(Get(sub.struct, K_methodName), "str")
    /\ Is(Get(sub.struct, K_params), "arr")

\* spec 4.4 system.multicall: each sub-call in order against the same
\* table, its result or a fault marker collected in its position
RECURSIVE Multicall(_, _, _, _)
Multicall(subs, st, results, invoked) ==
    IF subs = <<>>
    THEN [ret |-> ArrV(results), store |-> st, invoked |-> invoked]
    ELSE LET sub == Head(subs)
             r == IF IsSubCall(sub)
                  THEN Invoke(Get(sub.struct, K_methodName).str,
                              Get(sub.struct, K_params).arr, st)
                  ELSE [ret |-> Fault(-1, <<>>), store |-> st, invoked |-> <<>>]
         IN  Multicall(Tail(subs), r.store, Append(results, r.ret),
                       invoked \o r.invoked)

\* spec 4.4: resolve the method and invoke it
Handle(method, params, st) ==
    IF method = M_multicall
    THEN IF Len(params) = 1 /\ Is(params[1], "arr")
         THEN Multicall(params[1].arr, st, <<>>, <<>>)
         ELSE [ret |-> Fault(-1, method), store |-> st, invoked |-> <<>>]
    ELSE Invoke(method, params, st)

\* the requests a peer writes
SubCall(method, params) ==
    StructV(<<<<K_methodName, StrV(method)>>, <<K_params, ArrV(params)>>>>)
PlainRequests ==
    {[method |-> M_event, params |-> <<StrV(<<105>>), BoolV(TRUE)>>],
     [method |-> M_event, params |-> <<StrV(<<105>>), StrV(<<83, 84>>)>>],
     [method |-> M_setValue, params |-> <<StrV(<<97>>), IntV(42)>>],
     [method |-> M_getValue, params |-> <<StrV(<<97>>)>>],
     [method |-> M_nope, params |-> <<StrV(<<105>>)>>]}
MulticallRequests ==
    {[method |-> M_multicall,
      params |-> <<ArrV(<<SubCall(M_setValue, <<StrV(<<97>>), IntV(42)>>),
                         SubCall(M_getValue, <<StrV(<<97>>)>>)>>)>>],
     [method |-> M_multicall,
      params |-> <<ArrV(<<SubCall(M_getValue, <<StrV(<<98>>)>>),
                         SubCall(M_nope, <<>>),
                         SubCall(M_setValue, <<StrV(<<97>>), BoolV(TRUE)>>),
                         SubCall(M_getValue, <<StrV(<<97>>)>>)>>)>>]}
\* the requests sent with an under-reporting header as well
UnderReported == {r \in PlainRequests : r.method = M_event}

RxIdle == [st |-> "header", declared |-> 0, body |-> <<>>, extra |-> 0]
RxClosed == [st |-> "closed", declared |-> 0, body |-> <<>>, extra |-> 0]

\* spec 4.2 steps 3-4: the bytes read so far taken as the whole body
Candidate(body) == HDR_REQ \o _be_u32(U(8 + Len(body))) \o body
Attempt == dec_request(Candidate(rx.body), DEFAULT_ENCODING)
\* a failure consistent with truncation: the decoder ran past the buffer
TruncationLike(r) == ~r.ok /\ r.err \in {"struct.error", "IndexError"}

InitServer ==
    /\ pc = "idle"
    /\ call = [op |-> "none"]
    /\ wire = Bytes(<<>>)
    /\ result = NoResult
    /\ sock = <<>>
    /\ sent = <<>>
    /\ rx = RxIdle
    /\ calls = <<>>
    /\ store = <<>>
    /\ replies = <<>>
    /\ OtherIdle

\* The peer writes a request once the previous one is answered (no
\* pipelining); its header may report up to MaxCut bytes too few.
PeerSend ==
    /\ rx.st = "header"
    /\ Len(replies) = Len(sent)
    /\ Len(sent) < MaxRequests
    /\ \E rq \in PlainRequests \cup MulticallRequests, cut \in 0..MaxCut :
          /\ cut > 0 => rq \in UnderReported
          /\ LET frame == enc_request(rq.method, rq.params,
                                      DEFAULT_ENCODING).bytes
             IN  sock' = sock \o HDR_REQ \o _be_u32(U(Len(frame) - cut))
                         \o Slice(frame, 8, Len(frame))
          /\ sent' = Append(sent, [method |-> rq.method, params |-> rq.params,
                                   cut |-> cut])
    /\ UNCHANGED <<rx, calls, store, replies, codecVars, otherVars>>

\* spec 4.2 step 1: exactly 8 header bytes, the magic validated
ReadHeader ==
    /\ rx.st = "header"
    /\ Len(sock) >= 8
    /\ rx' = IF Slice(sock, 0, 4) # HDR_REQ THEN RxClosed
             ELSE IF N(_rd_u32(sock, 4).val) < 8 THEN RxClosed
             ELSE [st |-> "body", declared |-> N(_rd_u32(sock, 4).val),
                   body |-> <<>>, extra |-> 0]
    /\ sock' = Slice(sock, 8, Len(sock))
    /\ UNCHANGED <<sent, calls, store, replies, codecVars, otherVars>>

\* spec 4.2 step 2: the declared_length - 8 body bytes the header claims
ReadBody ==
    /\ rx.st = "body"
    /\ Len(sock) >= rx.declared - 8
    /\ rx' = [rx EXCEPT !.st = "decode",
                        !.body = Slice(sock, 0, rx.declared - 8)]
    /\ sock' = Slice(sock, rx.declared - 8, Len(sock))
    /\ UNCHANGED <<sent, calls, store, replies, codecVars, otherVars>>

\* spec 4.2 step 4: decode failed as a truncated body does; more bytes are
\* read, as many as the socket hands over, within the budget
Extend ==
    /\ rx.st = "decode"
    /\ \E r \in {Attempt} : TruncationLike(r)
    /\ \E n \in 1..(ExtBudget - rx.extra) :
          /\ n <= Len(sock)
          /\ rx' = [rx EXCEPT !.body = rx.body \o Slice(sock, 0, n),
                              !.extra = rx.extra + n]
          /\ sock' = Slice(sock, n, Len(sock))
    /\ UNCHANGED <<sent, calls, store, replies, codecVars, otherVars>>

\* spec 4.2 step 4, spec 7: past the budget (FramingError), or a body that
\* does not decode for another reason (ProtocolError); the connection ends
GiveUp ==
    /\ rx.st = "decode"
    /\ \E r \in {Attempt} :
          /\ ~r.ok
          /\ ~TruncationLike(r) \/ rx.extra >= ExtBudget \/ sock = <<>>
    /\ rx' = RxClosed
    /\ UNCHANGED <<sock, sent, calls, store, replies, codecVars, otherVars>>

\* spec 4.4: the decoded request is dispatched and the response written
Dispatch ==
    /\ rx.st = "decode"
    /\ \E r \in {Attempt} :
          /\ r.ok
          /\ \E h \in {Handle(r.method, r.params, store)} :
                /\ calls' = Append(calls, h.invoked)
                /\ store' = h.store
                /\ replies' = Append(replies,
                                     enc_response(h.ret, DEFAULT_ENCODING).bytes)
    /\ rx' = RxIdle
    /\ UNCHANGED <<sock, sent, codecVars, otherVars>>

ServerStep == ReadHeader \/ ReadBody \/ Extend \/ GiveUp \/ Dispatch

NextServer == PeerSend \/ ServerStep

SpecServer == InitServer /\ [][NextServer]_vars

(***************************************************************************)
(* Claims on the server side of a connection                               *)
(***************************************************************************)
\* the headers of requests 1..k all report the true frame size
NoCutUpTo(k) == \A j \in 1..k : sent[j].cut = 0

\* C2: a request whose header under-reports the frame by 1..ExtBudget bytes
\* (the stream before it intact) does not end the connection unanswered,
\* and when it is dispatched the registered handler is invoked exactly once
\* with the complete parameter list the peer sent.
C2_UnderReportedDispatched ==
    \A i \in 1..Len(sent) :
        (/\ sent[i].cut \in 1..ExtBudget
         /\ sent[i].method \in Registered
         /\ NoCutUpTo(i - 1))
        => /\ ~(rx.st = "closed" /\ Len(replies) < i)
           /\ i <= Len(calls)
                => calls[i] = <<<<sent[i].method, sent[i].params>>>>

\* the case of the test: the under-reported bytes fall in a trailing Bool
UnderReportedBoolTail ==
    \A i \in 1..Len(sent) :
        (/\ sent[i].cut \in 1..ExtBudget
         /\ sent[i].method \in Registered
         /\ Is(sent[i].params[Len(sent[i].params)], "bool")
         /\ NoCutUpTo(i - 1))
        => /\ ~(rx.st = "closed" /\ Len(replies) < i)
           /\ i <= Len(calls)
                => calls[i] = <<<<sent[i].method, sent[i].params>>>>
UnderReportedAnswered ==
    \E i \in 1..Len(replies) :
        /\ sent[i].cut = ExtBudget
        /\ calls[i] = <<<<sent[i].method, sent[i].params>>>>

SubMethod(sub) == Get(sub.struct, K_methodName).str
SubParams(sub) == Get(sub.struct, K_params).arr
IsRegisteredCall(sub) == SubMethod(sub) \in Registered
\* the handler invocations of sub-calls run one after another
InOrder(subs) ==
    LET known == SelectSeq(subs, IsRegisteredCall)
    IN  [k \in 1..Len(known) |-> <<SubMethod(known[k]), SubParams(known[k])>>]
\* the positions before k that set the key read at position k
SetsBefore(subs, k) ==
    {j \in 1..(k - 1) : /\ SubMethod(subs[j]) = M_setValue
                        /\ SubParams(subs[j])[1] = SubParams(subs[k])[1]}
Last(S) == CHOOSE j \in S : \A l \in S : l <= j

\* C4: the answer to a system.multicall of n sub-calls is an Array of n
\* entries in submitted order; a getValue after a setValue of the same key
\* answers the value last set, a getValue of a key never set and an unknown
\* method leave a fault marker in their position, and every registered
\* sub-call is invoked, in order, whatever failed before it.
C4_MulticallInOrder ==
    \A i \in 1..Len(replies) :
        (sent[i].method = M_multicall /\ NoCutUpTo(i))
        => LET subs == sent[i].params[1].arr
               r == dec_response(replies[i])
           IN  /\ r.ok
               /\ Is(r.val, "arr")
               /\ Len(r.val.arr) = Len(subs)
               /\ calls[i] = InOrder(subs)
               /\ \A k \in 1..Len(subs) :
                     LET m == SubMethod(subs[k])
                         e == r.val.arr[k]
                     IN  /\ m \notin Registered => IsFault(e)
                         /\ m = M_setValue => e = StrV(<<>>)
                         /\ m = M_getValue =>
                               IF SetsBefore(subs, k) # {}
                               THEN e = SubParams(subs[Last(SetsBefore(subs, k))])[2]
                               ELSE ~Has(store, SubParams(subs[k])[1].str)
                                       => IsFault(e)
C4_Witness ==
    \E i \in 1..Len(replies) :
        /\ sent[i].method = M_multicall
        /\ Len(sent[i].params[1].arr) = 4
        /\ LET r == dec_response(replies[i])
           IN  /\ r.ok
               /\ IsFault(r.val.arr[1])
               /\ IsFault(r.val.arr[2])
               /\ r.val.arr[4] = BoolV(TRUE)

\* a request answered as the function table answers it
AnsweredNormally(j) ==
    sent[j].method \in Registered
    => /\ calls[j] = <<<<sent[j].method, sent[j].params>>>>
       /\ dec_response(replies[j]).ok
       /\ sent[j].method # M_getValue
            => dec_response(replies[j]).val = StrV(<<>>)

\* request i names a method outside the function table, on a connection
\* whose frames so far carry accurate headers
UnknownAsked(i) ==
    /\ i <= Len(sent)
    /\ sent[i].method \notin Registered \cup {M_multicall}
    /\ NoCutUpTo(Len(sent))
\* the server's next step on the request in hand is the read of its header,
\* the read of its body, or its dispatch: it neither waits for bytes that
\* do not come nor gives the frame up
Serving ==
    \/ rx.st = "header" /\ Len(sock) >= 8 /\ Slice(sock, 0, 4) = HDR_REQ
    \/ rx.st = "body" /\ Len(sock) >= rx.declared - 8
    \/ rx.st = "decode" /\ Attempt.ok

\* C7: on a connection whose frames carry accurate headers, a request for a
\* method outside the function table invokes no handler and is answered
\* with a response whose payload is a fault value; the server does not
\* close the connection, and the request sent after it is in turn read,
\* dispatched and answered as the function table answers it.
C7_UnknownMethodFault ==
    \A i \in 1..Len(sent) :
        UnknownAsked(i)
        => /\ rx.st # "closed"
           /\ Len(replies) < Len(sent) => Serving
           /\ i <= Len(replies)
                => /\ calls[i] = <<>>
                   /\ dec_response(replies[i]).ok
                   /\ IsFault(dec_response(replies[i]).val)
           /\ i + 1 <= Len(replies) => AnsweredNormally(i + 1)
C7_Witness ==
    \E i \in 1..Len(replies) :
        /\ sent[i].method = M_nope
        /\ i + 1 <= Len(replies)
        /\ sent[i + 1].method = M_setValue
        /\ rx.st = "header"

(***************************************************************************)
(* Claims on buffers that end early                                        *)
(***************************************************************************)
\* C11: when an Array's or Struct's declared count, or a request's declared
\* parameter count, is larger than the number of elements present in the
\* buffer, decoding raises; no container or parameter list is returned.
C11_ShortCountRaises ==
    (pc = "decoded" /\ call.op = "peer_short") => ~result.ok

\* The same where the buffer ends at an element boundary: the read of the
\* next element finds no 4 bytes.
ShortAtBoundaryRaises ==
    (pc = "decoded" /\ call.op = "peer_short" /\ call.keep = 0)
        => result = Raise("struct.error")
\* The same where the element cut short is not a String.
ShortNonStringRaises ==
    (pc = "decoded" /\ call.op = "peer_short" /\ ~Is(call.next, "str"))
        => ~result.ok
\* What is returned never holds fewer elements than were declared.
NeverFewerThanDeclared ==
    (pc = "decoded" /\ call.op = "peer_short" /\ result.ok)
        => CASE call.kind = "array" -> Len(result.val.arr) = call.declared
             [] call.kind = "struct" -> Len(result.val.struct) = call.declared
             [] call.kind = "request" -> Len(result.params) = call.declared

\* the calls that end in dec_data on the bytes of the wire
DataDecoded ==
    /\ pc = "decoded"
    /\ \/ call.op \in {"data", "data_other", "double", "peer_bool",
                       "peer_value", "peer_string"}
       \/ call.op = "peer_short" /\ call.kind # "request"

\* C15: whenever dec_data returns on a buffer, the offset it returns lies
\* within the buffer, and a String or struct key declared longer than the
\* bytes remaining is not returned shortened.
C15_OffsetInsideBuffer ==
    /\ (DataDecoded /\ result.ok) => result.ofs <= Len(wire.bytes)
    /\ (DataDecoded /\ call.op = "peer_string" /\ call.missing > 0)
          => ~result.ok

\* A struct key declared longer than the bytes remaining does raise: the
\* read of the value after it starts past the end.
ShortKeyRaises ==
    (DataDecoded /\ call.op = "peer_string" /\ call.key /\ call.missing > 0)
        => result = Raise("struct.error")
\* What the encoders wrote is decoded from inside the buffer.
EncodedDecodedInside ==
    (DataDecoded /\ call.op \in {"data", "data_other", "double"}
     /\ result.ok) => result.ofs = Len(wire.bytes)

(***************************************************************************)
(* Claims on the encoders                                                  *)
(***************************************************************************)
\* the type tag enc_data is to write for v
TagOf(v) ==
    CASE Is(v, "bool") -> T_BOOL
      [] Is(v, "int") -> T_INTEGER
      [] Is(v, "double") -> T_DOUBLE
      [] Is(v, "arr") -> T_ARRAY
      [] Is(v, "struct") -> T_STRUCT
      [] OTHER -> T_STRING
EncDataReturns ==
    /\ wire.ok
    /\ wire = enc_data(call.v, call.encoding)
    /\ Slice(wire.bytes, 0, 4) = _be_u32(U(TagOf(call.v)))
    /\ Is(call.v, "none")
          => wire = enc_string(<<78, 111, 110, 101>>, call.encoding)

\* C12: for every value and every encoding enc_data returns bytes without
\* raising, the same bytes each time, under the type tag of the value's kind;
\* a value of any other kind is written as the String of its text.
C12_EncDataTotal ==
    (pc # "idle" /\ call.op \in {"data", "data_other"}) => EncDataReturns

\* The same under UTF-8, which encodes every string drawn.
EncDataTotalUtf8 ==
    (pc # "idle" /\ call.op \in {"data", "data_other"}
     /\ call.encoding = "utf-8") => EncDataReturns

(***************************************************************************)
(* The Central Orchestrator (spec 4.5): start() over the configured        *)
(* interfaces, whose init handshakes proceed independently                 *)
(***************************************************************************)
Interfaces == 1..MaxInterfaces
\* how an init handshake ends
Outcomes == {"ok", "timeout", "error"}

InitCentral ==
    /\ CodecIdle
    /\ ConnIdle
    /\ recv = [pc |-> "none"]
    /\ central = [state |-> "none"]

\* CentralConfig(...).create_central() with any set of interfaces
CreateCentral ==
    /\ central.state = "none"
    /\ \E configured \in SUBSET Interfaces :
          central' = [state |-> "Created",
                      ifaces |-> [i \in configured |-> "Disconnected"],
                      outcome |-> [i \in configured |-> "none"],
                      raised |-> FALSE]
    /\ UNCHANGED <<codecVars, connVars, recv>>

\* start() is called
Start ==
    /\ central.state = "Created"
    /\ central' = [central EXCEPT !.state = "Starting"]
    /\ UNCHANGED <<codecVars, connVars, recv>>

\* start(): a Client Proxy is opened for an interface and the init
\* handshake sent
BeginInit ==
    /\ central.state = "Starting"
    /\ \E i \in DOMAIN central.ifaces :
          /\ central.ifaces[i] = "Disconnected"
          /\ central' = [central EXCEPT !.ifaces[i] = "Initializing"]
    /\ UNCHANGED <<codecVars, connVars, recv>>

\* the orchestrator after interface i's handshake ended with outcome o, a
\* failure raised out of start()
AfterInit_raising(c, i, o) ==
    IF o = "ok"
    THEN [c EXCEPT !.ifaces[i] = "Ready", !.outcome[i] = o]
    ELSE [c EXCEPT !.ifaces[i] = "Failed", !.outcome[i] = o,
                   !.state = "Stopped", !.raised = TRUE]

\* the orchestrator after interface i's handshake ended with outcome o:
\* Ready on success, Failed on timeout or error, the others untouched
AfterInit(c, i, o) ==
    [c EXCEPT !.ifaces[i] = IF o = "ok" THEN "Ready" ELSE "Failed",
              !.outcome[i] = o]

\* start(): a handshake succeeds, times out or fails
InitOutcome ==
    /\ central.state = "Starting"
    /\ \E i \in DOMAIN central.ifaces, o \in Outcomes :
          /\ central.ifaces[i] = "Initializing"
          /\ central' = AfterInit(central, i, o)
    /\ UNCHANGED <<codecVars, connVars, recv>>

\* start(): every interface has attempted init; the orchestrator runs
FinishStart ==
    /\ central.state = "Starting"
    /\ \A i \in DOMAIN central.ifaces :
          central.ifaces[i] \in {"Ready", "Failed"}
    /\ central' = [central EXCEPT !.state = "Running"]
    /\ UNCHANGED <<codecVars, connVars, recv>>

StartStep == BeginInit \/ InitOutcome \/ FinishStart

NextCentral == CreateCentral \/ Start \/ StartStep

SpecCentral == InitCentral /\ [][NextCentral]_vars

\* start() runs on while it has a step to take: every handshake is bounded
\* by the init timeout
FairSpecCentral == SpecCentral /\ WF_vars(StartStep)

Started == central.state \in {"Starting", "Running", "Stopped"}
StartIsolated ==
    /\ Started => ~central.raised /\ central.state # "Stopped"
    /\ central.state = "Running"
          => \A i \in DOMAIN central.ifaces :
                /\ central.outcome[i] \in Outcomes
                /\ central.outcome[i] = "ok" => central.ifaces[i] = "Ready"
                /\ central.outcome[i] # "ok" => central.ifaces[i] = "Failed"

\* C13: whatever interfaces are configured and whichever of their init
\* handshakes fail or time out, start() raises nothing, ends with the
\* orchestrator Running, and by then has attempted init on every interface,
\* each failed one being Failed and each succeeded one Ready.
C13_StartIsolatesFailures ==
    /\ []StartIsolated
    /\ (central.state = "Starting") ~> (central.state = "Running")

C13_Witness ==
    /\ central.state = "Running"
    /\ \E i, j, k \in DOMAIN central.ifaces :
          /\ central.outcome[i] = "timeout" /\ central.ifaces[i] = "Failed"
          /\ central.outcome[j] = "error" /\ central.ifaces[j] = "Failed"
          /\ central.outcome[k] = "ok" /\ central.ifaces[k] = "Ready"

(***************************************************************************)
(* recv_exact (support.py:224-232) reading a stream socket                 *)
(***************************************************************************)
\* the bytes a peer sends before it closes or falls silent: 11, 12, ...
StreamOf(len) == [i \in 1..len |-> 10 + i]

InitRecv ==
    /\ CodecIdle
    /\ ConnIdle
    /\ OtherIdle

\* support.py:226-227 recv_exact(sock=sock, n=n, timeout=timeout):
\* sock.settimeout(timeout); data = bytearray()
RecvCall ==
    /\ recv.pc = "none"
    /\ \E n \in 0..MaxRecv, len \in 0..(MaxRecv + 1), closes \in BOOLEAN :
          recv' = [pc |-> "loop", n |-> n, data |-> <<>>,
                   stream |-> StreamOf(len), rest |-> StreamOf(len),
                   closes |-> closes, asked |-> 0, had |-> 0,
                   out |-> NoResult]
    /\ UNCHANGED <<codecVars, connVars, central>>

\* the size asked of the socket, taken as n whatever was received
Want_whole(n, data) == n

\* support.py:229 the size asked of the socket: n - len(data)
Want(n, data) == n - Len(data)

\* support.py:228-231 while len(data) < n: chunk = sock.recv(...), which
\* hands over between one byte and the size asked; data += chunk
RecvChunk ==
    /\ recv.pc = "loop"
    /\ Len(recv.data) < recv.n
    /\ \E k \in 1..Want(recv.n, recv.data) :
          /\ k <= Len(recv.rest)
          /\ recv' = [recv EXCEPT !.data = recv.data \o Slice(recv.rest, 0, k),
                                  !.rest = Slice(recv.rest, k, Len(recv.rest)),
                                  !.asked = Want(recv.n, recv.data),
                                  !.had = Len(recv.data)]
    /\ UNCHANGED <<codecVars, connVars, central>>

\* support.py:229-230 the peer has closed: sock.recv returns b"" and
\* OSError is raised
RecvClosed ==
    /\ recv.pc = "loop"
    /\ Len(recv.data) < recv.n
    /\ recv.rest = <<>>
    /\ recv.closes
    /\ recv' = [recv EXCEPT !.pc = "done", !.out = Raise("OSError"),
                            !.asked = Want(recv.n, recv.data),
                            !.had = Len(recv.data)]
    /\ UNCHANGED <<codecVars, connVars, central>>

\* support.py:226, 229 the peer sends nothing more: sock.recv raises the
\* socket's timeout
RecvTimeout ==
    /\ recv.pc = "loop"
    /\ Len(recv.data) < recv.n
    /\ recv.rest = <<>>
    /\ ~recv.closes
    /\ recv' = [recv EXCEPT !.pc = "done", !.out = Raise("TimeoutError"),
                            !.asked = Want(recv.n, recv.data),
                            !.had = Len(recv.data)]
    /\ UNCHANGED <<codecVars, connVars, central>>

\* support.py:228, 232 the loop ends; return bytes(data)
RecvReturn ==
    /\ recv.pc = "loop"
    /\ Len(recv.data) >= recv.n
    /\ recv' = [recv EXCEPT !.pc = "done", !.out = Bytes(recv.data)]
    /\ UNCHANGED <<codecVars, connVars, central>>

RecvStep == RecvChunk \/ RecvClosed \/ RecvTimeout \/ RecvReturn

NextRecv == RecvCall \/ RecvStep

SpecRecv == InitRecv /\ [][NextRecv]_vars

\* the call keeps running: sock.recv returns or raises within the timeout
FairSpecRecv == SpecRecv /\ WF_vars(RecvStep)

RecvExact ==
    recv.pc # "none"
    => /\ recv.data \o recv.rest = recv.stream
       /\ Len(recv.data) <= recv.n
       /\ recv.asked <= recv.n - recv.had
       /\ (recv.pc = "done" /\ recv.out.ok)
             => /\ Len(recv.out.bytes) = recv.n
                /\ recv.out.bytes = Slice(recv.stream, 0, recv.n)
                /\ recv.rest = Slice(recv.stream, recv.n, Len(recv.stream))
       /\ (recv.pc = "done" /\ Len(recv.stream) >= recv.n) => recv.out.ok
       /\ (recv.pc = "done" /\ Len(recv.stream) < recv.n /\ recv.closes)
             => recv.out = Raise("OSError")

\* C14: recv_exact returns exactly n bytes, the first n of the stream in
\* order, however the socket splits them; it never asks for or takes more
\* than the bytes still missing; it raises OSError, returning nothing short,
\* when the peer closes before n bytes arrived; and it ends once n bytes or
\* an empty read were delivered.
C14_RecvExact ==
    /\ []RecvExact
    /\ (recv.pc = "loop") ~> (recv.pc = "done")

C14_Witness ==
    /\ recv.pc = "done"
    /\ recv.n = MaxRecv
    /\ recv.had = MaxRecv - 1
    /\ recv.asked = 1
    /\ recv.out = Bytes(Slice(recv.stream, 0, MaxRecv))
    /\ recv.rest # <<>>
\* the peer closed after fewer than n bytes
RecvClosedEarly ==
    /\ recv.pc = "done"
    /\ recv.had > 0
    /\ recv.out = Raise("OSError")

(***************************************************************************)
(* Claims on responses and integers                                        *)
(***************************************************************************)
\* C16: every frame enc_response writes holds a payload after the status 0;
\* for None the payload is the empty String, so dec_response on that frame
\* returns "" and not None; dec_response returns None for a frame exactly
\* when its body is the 4-byte status alone.
C16_NoneAsEmptyString ==
    /\ (pc # "idle" /\ call.op = "response" /\ wire.ok)
          => /\ Len(wire.bytes) > 12
             /\ Slice(wire.bytes, 8, 12) = _be_u32(U(0))
    /\ (pc # "idle" /\ call.op = "response" /\ Is(call.ret, "none"))
          => wire = Bytes(HDR_RES \o _be_u32(U(20)) \o _be_u32(U(0))
                          \o _be_u32(U(T_STRING)) \o _be_u32(U(0)))
    /\ (pc = "decoded" /\ call.op = "response" /\ Is(call.ret, "none"))
          => result = [ok |-> TRUE, val |-> StrV(<<>>)]
    /\ (pc = "decoded" /\ call.op \in {"response", "peer_response"}
        /\ result.ok)
          => (Is(result.val, "none") <=> Len(wire.bytes) = 12)

C16_Witness ==
    /\ pc = "decoded"
    /\ call.op = "response"
    /\ Is(call.ret, "none")
    /\ call.encoding = "ascii"
    /\ result = [ok |-> TRUE, val |-> StrV(<<>>)]
\* a frame of the status alone decodes to None
StatusAloneIsNone ==
    /\ pc = "decoded"
    /\ call.op = "peer_response"
    /\ ~call.has
    /\ result = [ok |-> TRUE, val |-> NoneV]

\* n lies in the signed 32-bit range
InInt32(n) == -32768 <= n.q /\ n.q <= 32767

\* C17: for every integer n, within the signed 32-bit range or not,
\* enc_integer writes the 4 big-endian bytes of n mod 2^32 without raising,
\* and decoding them yields the one value of the signed 32-bit range
\* congruent to n modulo 2^32, which is n itself when n is in that range.
C17_IntegerWraps ==
    /\ (pc # "idle" /\ call.op = "integer")
          => wire = Bytes(_be_u32(U(T_INTEGER))
                          \o <<((call.n.q % 65536) \div 256),
                               ((call.n.q % 65536) % 256),
                               (call.n.r \div 256), (call.n.r % 256)>>)
    /\ (pc = "decoded" /\ call.op = "integer")
          => /\ result.ok
             /\ result.ofs = 8
             /\ Is(result.val, "int")
             /\ -2147483647 - 1 <= result.val.int
             /\ result.val.int <= 2147483647
             /\ result.val.int % 65536 = call.n.r
             /\ ((result.val.int \div 65536) - call.n.q) % 65536 = 0
             /\ InInt32(call.n)
                   => result.val.int = (call.n.q * 65536) + call.n.r

C17_Witness ==
    /\ pc = "decoded"
    /\ call.op = "integer"
    /\ call.n = [q |-> 32768, r |-> 0]
    /\ wire = Bytes(<<0, 0, 0, 1, 128, 0, 0, 0>>)
    /\ result = Ret(IntV(-2147483647 - 1), 8)

====
